---- MODULE Spec2Model ----
(***************************************************************************)
(* The SpaceX launch pipeline of src/src/lambda/lambda_function.py:        *)
(* lambda_handler fetches the launch list, process_and_save_launches       *)
(* normalises each record and upserts it into the DynamoDB table, and a    *)
(* manual invocation adds two summary scans to the response.               *)
(*                                                                         *)
(* A storage call (get_item, put_item, scan) is one atomic step; the code  *)
(* between two storage calls belongs to the step that follows it.  What    *)
(* the environment decides (the trigger, the API's answer, which storage   *)
(* calls fail) is fixed in env when an invocation is set up.               *)
(***************************************************************************)
EXTENDS Integers, Sequences, FiniteSets, TLC

\* ------------------------------------------------------------------ bounds
MaxLaunches == 3        \* longest list the API returns
MaxCalls == 3           \* direct calls of upsert_launch_to_dynamodb in a run
MaxPairLaunches == 2    \* longest list when two invocations are set up

\* ------------------------------------------------------- program constants
ScanLimit == 5          \* table.scan(Limit=5)

Invocations == 1..2
Deployments == 1..2

\* ------------------------------------------------------- JSON-like values
\* A scalar is tagged with its Python type; val is the integer part.
PyNone == [kind |-> "none", val |-> 0]
Missing == [kind |-> "absent", val |-> 0]
PyInt(n) == [kind |-> "int", val |-> n]
\* the float n + 0.5
PyFloat(n) == [kind |-> "float", val |-> n]
\* Decimal('n.5')
PyDecimal(n) == [kind |-> "decimal", val |-> n]
\* the non-numeric string 'TBD'
PyText == [kind |-> "str", val |-> 0]

Digit == <<"0", "1", "2", "3", "4", "5", "6", "7", "8", "9">>

RECURSIVE Digits(_)
Digits(n) == IF n < 10 THEN <<Digit[n + 1]>>
             ELSE Digits(n \div 10) \o <<Digit[(n % 10) + 1]>>

\* str(v), as a sequence of characters
PyStr(v) ==
  CASE v.kind = "int" -> Digits(v.val)
    [] v.kind = "none" -> <<"N", "o", "n", "e">>
    [] v.kind = "float" -> Digits(v.val) \o <<".", "5">>
    [] v.kind = "decimal" -> Digits(v.val) \o <<".", "5">>
    [] v.kind = "str" -> <<"T", "B", "D">>
    [] OTHER -> <<>>

\* dict.get(key) of a key that may be absent: None when absent
GetOrNone(v) == IF v.kind = "absent" THEN PyNone ELSE v

\* json.loads(json.dumps(v, default=str), parse_float=Decimal) on a scalar
convert_to_dynamodb_format(v) ==
  IF v.kind = "float" THEN PyDecimal(v.val) ELSE v

\* --------------------------------------------------------- raw records
Upcomings == {"absent", "false", "true"}
Successes == {"absent", "null", "false", "true"}
Rockets == {"absent", "null", "Falcon 9"}
FlightValues == {Missing, PyNone, PyInt(1), PyInt(12), PyFloat(1), PyText}

RawLaunches ==
  [shape : {"mapping"}, flight_number : FlightValues, upcoming : Upcomings,
   launch_success : Successes, rocket : Rockets]

\* The API's record of flight k.
RawLaunch(k) ==
  [shape |-> "mapping", flight_number |-> PyInt(k),
   upcoming |-> IF k % 2 = 0 THEN "true" ELSE "false",
   launch_success |-> IF k % 3 = 0 THEN "false"
                      ELSE IF k % 2 = 0 THEN "null" ELSE "true",
   rocket |-> "Falcon 9"]

\* A record whose 'rocket' is null.
NullRocket(k) == [RawLaunch(k) EXCEPT !.rocket = "null"]

\* An element of the list that is no mapping (a number, a string).
Scalar(k) == [RawLaunch(k) EXCEPT !.shape = "scalar"]

\* ------------------------------------------------------------ pure code
determine_launch_status_no_priority(launch) ==
  IF launch.launch_success = "true" THEN "success"
  ELSE IF launch.launch_success = "false" THEN "failed"
  ELSE IF launch.upcoming = "true" THEN "upcoming"
  ELSE "unknown"

determine_launch_status(launch) ==
  IF launch.upcoming = "true" THEN "upcoming"
  ELSE IF launch.launch_success = "true" THEN "success"
  ELSE IF launch.launch_success = "false" THEN "failed"
  ELSE "unknown"

\* process_launch_data raises: launch.get on a non-mapping, or
\* rocket_info.get on a null 'rocket' (a null 'launch_site' raises the same
\* way at line 149).
NormalizeRaises(launch) ==
  launch.shape # "mapping" \/ launch.rocket = "null"

\* The canonical record; now is the reading of the clock.
process_launch_data(launch, now) ==
  [launch_id |-> IF launch.flight_number.kind = "absent" THEN <<>>
                 ELSE PyStr(launch.flight_number),
   flight_number |-> convert_to_dynamodb_format(GetOrNone(launch.flight_number)),
   rocket_name |-> IF launch.rocket = "absent" THEN "Unknown" ELSE launch.rocket,
   status |-> determine_launch_status(launch),
   launch_success |-> IF launch.launch_success = "absent" THEN "null"
                      ELSE launch.launch_success,
   upcoming |-> IF launch.upcoming = "absent" THEN "false" ELSE launch.upcoming,
   last_updated |-> now]

NoItem ==
  [launch_id |-> <<>>, flight_number |-> PyNone, rocket_name |-> "",
   status |-> "", launch_success |-> "null", upcoming |-> "false",
   last_updated |-> 0]

\* ------------------------------------------------------------ the table
Keys(tbl) == {i.launch_id : i \in tbl}

\* 'Item' in table.get_item(Key={'launch_id': key})
ItemInResponse(tbl, key) == \E i \in tbl : i.launch_id = key

put_item_append(tbl, item) == tbl \cup {item}

put_item_if_absent(tbl, item) ==
  IF \E i \in tbl : i.launch_id = item.launch_id THEN tbl ELSE tbl \cup {item}

\* table.put_item(Item=item): a full replace under the item's key
put_item(tbl, item) ==
  {i \in tbl : i.launch_id # item.launch_id} \cup {item}

UpsertResultInverted(item_exists) == IF item_exists THEN "created" ELSE "updated"

\* result = 'updated' if item_exists else 'created'
UpsertResult(item_exists) == IF item_exists THEN "updated" ELSE "created"

ItemExistsFailClosed(tbl, key, readOk) == ~readOk \/ ItemInResponse(tbl, key)

\* item_exists after the try/except around get_item
ItemExists(tbl, key, readOk) == readOk /\ ItemInResponse(tbl, key)

\* ----------------------------------------------------------- the counters
ZeroStats == [processed |-> 0, created |-> 0, updated |-> 0, errors |-> 0]

\* stats after upsert returned result
CountSaved(stats, result) ==
  [stats EXCEPT !.processed = @ + 1,
                !.created = IF result = "created" THEN @ + 1 ELSE @,
                !.updated = IF result = "updated" THEN @ + 1 ELSE @]

CountErrorAsProcessed(stats) ==
  [stats EXCEPT !.processed = @ + 1, !.errors = @ + 1]

\* stats after the except branch of the loop
CountError(stats) == [stats EXCEPT !.errors = @ + 1]

\* ------------------------------------------------------------ the trigger
Events ==
  [httpMethod : {"absent", "GET", "POST"},
   source : {"absent", "aws.events", "manual-test"},
   body : BOOLEAN]

\* the event {} of a scheduled run
Scheduled == [httpMethod |-> "absent", source |-> "absent", body |-> FALSE]

\* an event of API Gateway
Manual == [httpMethod |-> "POST", source |-> "absent", body |-> TRUE]

is_manual_test_post_only(event) == event.httpMethod = "POST"

is_manual_test(event) ==
  \/ event.httpMethod = "POST"
  \/ event.source = "manual-test"
  \/ event.body

\* ----------------------------------------------------------- the response
Statuses == {"upcoming", "success", "failed", "unknown"}
RocketNames == {"Unknown", "Falcon 9"}

ErrFetch == "Error obteniendo datos de SpaceX"
ErrInternal == "Error interno"
Success == "Procesamiento exitoso"

\* get_table_stats() returning {} : present is FALSE
NoTableStats ==
  [present |-> FALSE, total_records |-> 0,
   by_status |-> [s \in Statuses |-> 0], by_rocket |-> [r \in RocketNames |-> 0]]

NoResponse ==
  [statusCode |-> 0, message |-> "", execution_type |-> "", summary |-> ZeroStats,
   has_details |-> FALSE, latest_launches |-> <<>>, table_stats |-> NoTableStats]

\* create_response(500, message)
ErrorResponse(message) ==
  [NoResponse EXCEPT !.statusCode = 500, !.message = message]

\* create_response(200, response_body) of a scheduled run
ScheduledResponse(stats) ==
  [NoResponse EXCEPT !.statusCode = 200, !.message = Success,
                     !.execution_type = "scheduled", !.summary = stats]

\* create_response(200, response_body) of a manual run
ManualResponse(stats, latest, tstats) ==
  [NoResponse EXCEPT !.statusCode = 200, !.message = Success,
                     !.execution_type = "manual", !.summary = stats,
                     !.has_details = TRUE, !.latest_launches = latest,
                     !.table_stats = tstats]

\* ------------------------------------------------------ the summary scans
Min(a, b) == IF a < b THEN a ELSE b

\* table.scan(Limit=limit): the table's first limit items in the table's
\* own order, which the caller does not control
ScanPages(tbl, limit) ==
  {S \in SUBSET tbl : Cardinality(S) = Min(limit, Cardinality(tbl))}

\* int(x.get('flight_number', 0)) raises ValueError on a non-numeric string
SortRaises(items) == \E i \in items : i.flight_number.kind = "str"

\* the sort key: int(flight_number) if flight_number else 0
FlightKey(item) ==
  IF item.flight_number.kind \in {"int", "decimal"} THEN item.flight_number.val
  ELSE 0

RECURSIVE Perms(_)
Perms(S) ==
  IF S = {} THEN {<<>>}
  ELSE UNION {{<<x>> \o t : t \in Perms(S \ {x})} : x \in S}

\* sorted(items, key=..., reverse=True): ties keep the scan's order
SortedItems(items) ==
  {s \in Perms(items) :
     \A i \in 1..(Len(s) - 1) : FlightKey(s[i]) >= FlightKey(s[i + 1])}

SummaryEntry(item) ==
  [flight_number |-> PyStr(item.flight_number), rocket_name |-> item.rocket_name,
   status |-> item.status, last_updated |-> item.last_updated]

\* the list built from sorted_items[:5]
SummaryOf(s) == [i \in 1..Min(5, Len(s)) |-> SummaryEntry(s[i])]

\* get_table_stats() on a scan that succeeded
TableStatsOf(tbl) ==
  [present |-> TRUE, total_records |-> Cardinality(tbl),
   by_status |-> [s \in Statuses |-> Cardinality({i \in tbl : i.status = s})],
   by_rocket |-> [r \in RocketNames |->
                    Cardinality({i \in tbl : i.rocket_name = r})]]

\* ------------------------------------------------------------- the state
VARIABLES
  table,    \* table[d]: the items of deployment d's DynamoDB table
  table0,   \* table[d] when the invocations were set up
  puts,     \* puts[d]: the items of the put_item calls that succeeded, in order
  clock,    \* clock[d]: the next reading of datetime.now()
  env,      \* env[p]: what the environment decides for invocation p
  inv       \* inv[p]: the locals of invocation p

vars == <<table, table0, puts, clock, env, inv>>

\* The locals before the first step; pc0 is where the invocation starts.
Locals(pc0) ==
  [pc |-> pc0, spacex_data |-> <<>>, idx |-> 1, stats |-> ZeroStats,
   launch_data |-> NoItem, item_exists |-> FALSE, latest_launches |-> <<>>,
   response |-> NoResponse, ops |-> <<>>, scans |-> <<>>, calls |-> {},
   results |-> <<>>,
   escaped |-> FALSE]

\* An invocation that never runs.
NoEnv ==
  [entry |-> "none", deployment |-> 1, event |-> Scheduled, api |-> <<>>,
   readFail |-> {}, writeFail |-> {}]

HandlerEnv(d, event, api, readFail, writeFail) ==
  [entry |-> "lambda_handler", deployment |-> d, event |-> event, api |-> api,
   readFail |-> readFail, writeFail |-> writeFail]

Dep(p) == env[p].deployment
Launch(p) == inv[p].spacex_data[inv[p].idx]

\* ------------------------------------------------- lambda_handler, 24-44
fetch_spacex_launches_unchecked(p) ==
  /\ inv[p].pc = "start"
  /\ inv' = [inv EXCEPT ![p].pc = "loop", ![p].spacex_data = env[p].api,
                        ![p].calls = @ \cup {"fetch_spacex_launches",
                                             "process_and_save_launches"}]
  /\ UNCHANGED <<table, table0, puts, clock, env>>

\* fetch_spacex_launches answers with the list or, on any failure, with [].
fetch_spacex_launches(p) ==
  /\ inv[p].pc = "start"
  /\ LET data == env[p].api
         called == inv[p].calls \cup {"fetch_spacex_launches"}
     IN  IF data = <<>>
         THEN inv' = [inv EXCEPT ![p].pc = "done", ![p].calls = called,
                                 ![p].response = ErrorResponse(ErrFetch)]
         ELSE inv' = [inv EXCEPT ![p].pc = "loop", ![p].spacex_data = data,
                                 ![p].calls =
                                   called \cup {"process_and_save_launches"}]
  /\ UNCHANGED <<table, table0, puts, clock, env>>

\* -------------------------------------- process_and_save_launches, 110-128
\* The loop takes the next record and normalises it.
Normalize(p) ==
  /\ inv[p].pc = "loop"
  /\ inv[p].idx <= Len(inv[p].spacex_data)
  /\ ~NormalizeRaises(Launch(p))
  /\ inv' = [inv EXCEPT ![p].pc = "get",
                        ![p].launch_data =
                          process_launch_data(Launch(p), clock[Dep(p)])]
  /\ clock' = [clock EXCEPT ![Dep(p)] = @ + 1]
  /\ UNCHANGED <<table, table0, puts, env>>

\* process_launch_data raises on a mapping; the except branch counts it.
NormalizeFails(p) ==
  /\ inv[p].pc = "loop"
  /\ inv[p].idx <= Len(inv[p].spacex_data)
  /\ Launch(p).shape = "mapping"
  /\ NormalizeRaises(Launch(p))
  /\ inv' = [inv EXCEPT ![p].stats = CountError(@), ![p].idx = @ + 1]
  /\ UNCHANGED <<table, table0, puts, clock, env>>

\* The element is no mapping: launch.get raises again inside the except
\* branch (line 125) and the exception reaches lambda_handler's handler.
Escape(p) ==
  /\ inv[p].pc = "loop"
  /\ inv[p].idx <= Len(inv[p].spacex_data)
  /\ Launch(p).shape # "mapping"
  /\ inv' = [inv EXCEPT ![p].pc = "done", ![p].escaped = TRUE,
                        ![p].response = ErrorResponse(ErrInternal)]
  /\ UNCHANGED <<table, table0, puts, clock, env>>

\* The loop is over: lambda_handler builds the response (46-70).
ReturnStats(p) ==
  /\ inv[p].pc = "loop"
  /\ inv[p].idx > Len(inv[p].spacex_data)
  /\ IF is_manual_test(env[p].event)
     THEN inv' = [inv EXCEPT ![p].pc = "latest"]
     ELSE inv' = [inv EXCEPT ![p].pc = "done",
                             ![p].response = ScheduledResponse(inv[p].stats)]
  /\ UNCHANGED <<table, table0, puts, clock, env>>

\* ------------------------------------- upsert_launch_to_dynamodb, 221-242
ReturnedAbortsBatch(p, outcome) ==
  IF env[p].entry = "lambda_handler"
  THEN [inv EXCEPT ![p].pc = "loop",
                   ![p].idx = IF outcome = "raised"
                              THEN Len(inv[p].spacex_data) + 1 ELSE @ + 1,
                   ![p].stats = IF outcome = "raised" THEN CountError(@)
                                ELSE CountSaved(@, outcome)]
  ELSE [inv EXCEPT ![p].pc = "test", ![p].idx = @ + 1,
                   ![p].results = Append(@, [item |-> inv[p].launch_data,
                                             outcome |-> outcome])]

ReturnedEscalates(p, outcome) ==
  IF env[p].entry = "lambda_handler"
  THEN IF outcome = "raised"
       THEN [inv EXCEPT ![p].pc = "done",
                        ![p].response = ErrorResponse(ErrInternal)]
       ELSE [inv EXCEPT ![p].pc = "loop", ![p].idx = @ + 1,
                        ![p].stats = CountSaved(@, outcome)]
  ELSE [inv EXCEPT ![p].pc = "test", ![p].idx = @ + 1,
                   ![p].results = Append(@, [item |-> inv[p].launch_data,
                                             outcome |-> outcome])]

\* What the caller does with the outcome of the upsert: the loop counts it
\* (118-126), a direct caller keeps it.
Returned(p, outcome) ==
  IF env[p].entry = "lambda_handler"
  THEN [inv EXCEPT ![p].pc = "loop", ![p].idx = @ + 1,
                   ![p].stats = IF outcome = "raised" THEN CountError(@)
                                ELSE CountSaved(@, outcome)]
  ELSE [inv EXCEPT ![p].pc = "test", ![p].idx = @ + 1,
                   ![p].results = Append(@, [item |-> inv[p].launch_data,
                                             outcome |-> outcome])]

GetItem(p) ==
  /\ inv[p].pc = "get"
  /\ LET key == inv[p].launch_data.launch_id
         readOk == inv[p].idx \notin env[p].readFail
     IN  inv' = [inv EXCEPT ![p].pc = "put",
                            ![p].item_exists =
                              ItemExists(table[Dep(p)], key, readOk),
                            ![p].ops = Append(@, [op |-> "get_item",
                                                  key |-> key, ok |-> readOk])]
  /\ UNCHANGED <<table, table0, puts, clock, env>>

PutItem(p) ==
  /\ inv[p].pc = "put"
  /\ inv[p].idx \notin env[p].writeFail
  /\ table' = [table EXCEPT ![Dep(p)] = put_item(@, inv[p].launch_data)]
  /\ puts' = [puts EXCEPT ![Dep(p)] = Append(@, inv[p].launch_data)]
  /\ inv' = [Returned(p, UpsertResult(inv[p].item_exists)) EXCEPT
               ![p].ops = Append(@, [op |-> "put_item",
                                     key |-> inv[p].launch_data.launch_id,
                                     ok |-> TRUE])]
  /\ UNCHANGED <<table0, clock, env>>

\* put_item raises and upsert_launch_to_dynamodb re-raises (240-242).
PutItemFails(p) ==
  /\ inv[p].pc = "put"
  /\ inv[p].idx \in env[p].writeFail
  /\ inv' = [Returned(p, "raised") EXCEPT
               ![p].ops = Append(@, [op |-> "put_item",
                                     key |-> inv[p].launch_data.launch_id,
                                     ok |-> FALSE])]
  /\ UNCHANGED <<table, table0, puts, clock, env>>

\* --------------------------------------- get_latest_launches_summary
get_latest_launches_summary(p) ==
  /\ inv[p].pc = "latest"
  /\ \E scanOk \in BOOLEAN :
       \E page \in ScanPages(table[Dep(p)], ScanLimit) :
         \E s \in (IF scanOk /\ ~SortRaises(page)
                   THEN {SummaryOf(t) : t \in SortedItems(page)} ELSE {<<>>}) :
           inv' = [inv EXCEPT ![p].pc = "stats", ![p].latest_launches = s,
                              ![p].scans = Append(@, scanOk),
                              ![p].calls =
                                @ \cup {"get_latest_launches_summary"}]
  /\ UNCHANGED <<table, table0, puts, clock, env>>

\* ------------------------------ get_table_stats and the return, 67-70
get_table_stats(p) ==
  /\ inv[p].pc = "stats"
  /\ \E scanOk \in BOOLEAN :
       inv' = [inv EXCEPT
                 ![p].pc = "done",
                 ![p].scans = Append(@, scanOk),
                 ![p].calls = @ \cup {"get_table_stats"},
                 ![p].response =
                   ManualResponse(inv[p].stats, inv[p].latest_launches,
                                  IF scanOk THEN TableStatsOf(table[Dep(p)])
                                  ELSE NoTableStats)]
  /\ UNCHANGED <<table, table0, puts, clock, env>>

\* ----------------------------------------------------- direct callers
\* The tests' harness: upsert_launch_to_dynamodb(record), called directly.
TestRecords == {process_launch_data(RawLaunch(k), 1) : k \in 1..2}

CallUpsert(p) ==
  /\ inv[p].pc = "test"
  /\ inv[p].idx <= MaxCalls
  /\ \E rec \in TestRecords : inv' = [inv EXCEPT ![p].pc = "get",
                                                 ![p].launch_data = rec]
  /\ UNCHANGED <<table, table0, puts, clock, env>>

\* process_launch_data(launch), called directly.
CallNormalize(p) ==
  /\ inv[p].pc = "unit"
  /\ LET launch == env[p].api[1]
     IN  IF NormalizeRaises(launch)
         THEN inv' = [inv EXCEPT ![p].pc = "done",
                        ![p].results = <<[item |-> NoItem, outcome |-> "raised"]>>]
         ELSE inv' = [inv EXCEPT ![p].pc = "done",
                        ![p].launch_data =
                          process_launch_data(launch, clock[Dep(p)])]
  /\ UNCHANGED <<table, table0, puts, clock, env>>

\* ------------------------------------------------------- initial states
\* The API's list: flights 1..n in order, or with flight 1 listed twice.
Ascending(n) == [i \in 1..n |-> RawLaunch(i)]
Repeated(n) == [i \in 1..n |-> RawLaunch(IF i = 1 THEN 1 ELSE i - 1)]

\* b with its j-th element damaged
WithNullRocket(b, j) == [b EXCEPT ![j] = NullRocket(b[j].flight_number.val)]
WithScalar(b, j) == [b EXCEPT ![j] = Scalar(b[j].flight_number.val)]

Batches(N) ==
  UNION {UNION {{b} \cup {WithNullRocket(b, j) : j \in 1..n}
                    \cup {WithScalar(b, j) : j \in 1..n} :
                b \in {Ascending(n), Repeated(n)}} : n \in 0..N}

\* the positions of b whose record reaches the upsert
Reached(b) ==
  {i \in DOMAIN b : /\ ~NormalizeRaises(b[i])
                    /\ \A j \in 1..i : b[j].shape = "mapping"}

\* What an earlier run stored for flight k.
PriorItem(k) == process_launch_data(RawLaunch(k), 0)

\* A table of more than ScanLimit items, two of them stored from records
\* whose flight_number was null and 'TBD'.
BigTable ==
  {PriorItem(k) : k \in 1..ScanLimit}
    \cup {process_launch_data([RawLaunch(1) EXCEPT !.flight_number = v], 0) :
            v \in {PyNone, PyText}}

Tables == {{}, {PriorItem(1)}, BigTable}

\* One invocation of lambda_handler at a time.
Init ==
  \E b \in Batches(MaxLaunches), event \in {Scheduled, Manual}, t \in Tables :
    \E rf \in SUBSET Reached(b), wf \in SUBSET Reached(b) :
      /\ env = [p \in Invocations |->
                  IF p = 1 THEN HandlerEnv(1, event, b, rf, wf) ELSE NoEnv]
      /\ inv = [p \in Invocations |->
                  IF p = 1 THEN Locals("start") ELSE Locals("off")]
      /\ table = [d \in Deployments |-> IF d = 1 THEN t ELSE {}]
      /\ table0 = table
      /\ puts = [d \in Deployments |-> <<>>]
      /\ clock = [d \in Deployments |-> 1]

Handler(p) ==
  \/ fetch_spacex_launches(p)
  \/ Normalize(p)
  \/ NormalizeFails(p)
  \/ Escape(p)
  \/ GetItem(p)
  \/ PutItem(p)
  \/ PutItemFails(p)
  \/ ReturnStats(p)
  \/ get_latest_launches_summary(p)
  \/ get_table_stats(p)

Next == \E p \in Invocations : Handler(p)

Spec == Init /\ [][Next]_vars

\* The initial state with invocation environments e1, e2 and tables t1, t2.
Setup(e1, pc1, e2, pc2, t1, t2) ==
  /\ env = [p \in Invocations |-> IF p = 1 THEN e1 ELSE e2]
  /\ inv = [p \in Invocations |-> IF p = 1 THEN Locals(pc1) ELSE Locals(pc2)]
  /\ table = [d \in Deployments |-> IF d = 1 THEN t1 ELSE t2]
  /\ table0 = table
  /\ puts = [d \in Deployments |-> <<>>]
  /\ clock = [d \in Deployments |-> 1]

\* --------------------------------- upsert_launch_to_dynamodb called directly
InitUpsert ==
  \E rf \in SUBSET (1..MaxCalls), wf \in SUBSET (1..MaxCalls),
     t \in {{}, {PriorItem(1), PriorItem(3)}} :
    Setup([NoEnv EXCEPT !.entry = "upsert_launch_to_dynamodb",
                        !.readFail = rf, !.writeFail = wf], "test",
          NoEnv, "off", t, {})

NextUpsert ==
  \E p \in Invocations :
    \/ CallUpsert(p)
    \/ GetItem(p)
    \/ PutItem(p)
    \/ PutItemFails(p)

SpecUpsert == InitUpsert /\ [][NextUpsert]_vars

\* ------------------------------------- process_launch_data called directly
InitNormalize ==
  \E launch \in RawLaunches :
    Setup([NoEnv EXCEPT !.entry = "process_launch_data", !.api = <<launch>>],
          "unit", NoEnv, "off", {}, {})

NextNormalize == \E p \in Invocations : CallNormalize(p)

SpecNormalize == InitNormalize /\ [][NextNormalize]_vars

\* ----------------------- two invocations of one deployment, not coordinated
\* Each invocation meets at most one failing storage call.
OneFault(n) ==
  {[readFail |-> {}, writeFail |-> {}]}
    \cup {[readFail |-> {i}, writeFail |-> {}] : i \in 1..n}
    \cup {[readFail |-> {}, writeFail |-> {i}] : i \in 1..n}

InitConc ==
  \E n1 \in 1..MaxPairLaunches, n2 \in 1..MaxPairLaunches,
     t \in {{}, {PriorItem(1)}} :
    \E f1 \in OneFault(n1), f2 \in OneFault(n2) :
      Setup(HandlerEnv(1, Scheduled, Ascending(n1), f1.readFail, f1.writeFail),
            "start",
            HandlerEnv(1, Scheduled, Ascending(n2), f2.readFail, f2.writeFail),
            "start", t, {})

NextConc ==
  \E p \in Invocations :
    \/ fetch_spacex_launches(p)
    \/ Normalize(p)
    \/ GetItem(p)
    \/ PutItem(p)
    \/ PutItemFails(p)
    \/ ReturnStats(p)

SpecConc == InitConc /\ [][NextConc]_vars

\* ------- two runs that differ in the trigger only, each in its own deployment
InitPair ==
  \E b \in Batches(MaxPairLaunches), first \in {Scheduled, Manual},
     second \in Events :
    \E rf \in SUBSET Reached(b), wf \in SUBSET Reached(b) :
      Setup(HandlerEnv(1, first, b, rf, wf), "start",
            HandlerEnv(2, second, b, rf, wf), "start",
            {PriorItem(1)}, {PriorItem(1)})

\* The deployments share nothing, so the second run is taken after the first.
NextPair ==
  \/ Handler(1)
  \/ inv[1].pc = "done" /\ Handler(2)

SpecPair == InitPair /\ [][NextPair]_vars

\* ================================================================ claims
IsHandler(p) == env[p].entry = "lambda_handler"
Api(p) == env[p].api
NumLaunches(p) == Len(env[p].api)
Range(s) == {s[i] : i \in DOMAIN s}

\* the launch_id of the i-th record of the API's list
KeyAt(p, i) == PyStr(Api(p)[i].flight_number)

\* process_and_save_launches has returned its counters
AfterLoop(p) ==
  /\ inv[p].pc \in {"latest", "stats", "done"}
  /\ inv[p].spacex_data # <<>>
  /\ ~inv[p].escaped

PutOps(p) == {j \in DOMAIN inv[p].ops : inv[p].ops[j].op = "put_item"}
PutOpsOk(p) == {j \in PutOps(p) : inv[p].ops[j].ok}

\* ---------------------------------------------------------------- C1
\* Every record reaches the upsert, the flight numbers are distinct, and
\* the put_item of exactly one record fails.
C1_Case(p) ==
  /\ IsHandler(p) /\ AfterLoop(p)
  /\ Reached(Api(p)) = DOMAIN Api(p)
  /\ \A i, j \in DOMAIN Api(p) : i # j => KeyAt(p, i) # KeyAt(p, j)
  /\ Cardinality(env[p].writeFail) = 1

\* C1: when the put_item of exactly one of N records with distinct flight
\* numbers fails, the loop still visits every record, returns processed =
\* N - 1 and errors = 1, and every other record, before and after the failed
\* one, is in the table under its launch_id, written by this run.
C1_BatchIsolation ==
  \A p \in Invocations :
    C1_Case(p) =>
      /\ inv[p].idx = NumLaunches(p) + 1
      /\ \A i \in DOMAIN Api(p) :
           \E j \in PutOps(p) : inv[p].ops[j].key = KeyAt(p, i)
      /\ inv[p].stats.processed = NumLaunches(p) - 1
      /\ inv[p].stats.errors = 1
      /\ \A i \in DOMAIN Api(p) \ env[p].writeFail :
           \E item \in table[Dep(p)] :
             /\ item.launch_id = KeyAt(p, i)
             /\ item \in Range(puts[Dep(p)])

\* Three records, the write of the second fails, the run has returned.
C1_Witness ==
  /\ C1_Case(1)
  /\ NumLaunches(1) = 3
  /\ env[1].writeFail = {2}
  /\ inv[1].pc = "done"

\* ---------------------------------------------------------------- C2
\* C2: after every iteration of the loop processed = created + updated and
\* processed + errors is the number of records visited; processed counts the
\* put_item calls that succeeded and nothing else; at return processed +
\* errors = N.
C2_Counters ==
  \A p \in Invocations :
    IsHandler(p) =>
      LET s == inv[p].stats
      IN  /\ s.processed = s.created + s.updated
          /\ s.processed + s.errors = inv[p].idx - 1
          /\ s.processed = Cardinality(PutOpsOk(p))
          /\ AfterLoop(p) => s.processed + s.errors = NumLaunches(p)

\* A run that has returned with a created, an updated and a failed record
\* and with a read that failed.
C2_Witness ==
  /\ IsHandler(1) /\ AfterLoop(1)
  /\ inv[1].stats.created >= 1
  /\ inv[1].stats.updated >= 1
  /\ inv[1].stats.errors >= 1
  /\ env[1].readFail # {}
  /\ env[1].writeFail # {}

\* ---------------------------------------------------------------- C5
\* C5: when fetch_spacex_launches returns the empty list, for a scheduled
\* and a manual trigger alike, lambda_handler returns statusCode 500 with
\* the message "Error obteniendo datos de SpaceX", calls neither
\* process_and_save_launches nor the summary scans, makes no storage call
\* and leaves the table as it was.
C5_EmptyFetch ==
  \A p \in Invocations :
    (IsHandler(p) /\ Api(p) = <<>>) =>
      /\ inv[p].pc \in {"start", "done"}
      /\ inv[p].calls \subseteq {"fetch_spacex_launches"}
      /\ inv[p].ops = <<>> /\ inv[p].scans = <<>>
      /\ table[Dep(p)] = table0[Dep(p)]
      /\ inv[p].pc = "done" =>
           /\ inv[p].response.statusCode = 500
           /\ inv[p].response.message = ErrFetch
           /\ ~inv[p].response.has_details

\* A manual invocation on a table that holds items got the empty list.
C5_Witness ==
  /\ IsHandler(1) /\ Api(1) = <<>>
  /\ is_manual_test(env[1].event)
  /\ table0[1] # {}
  /\ inv[1].pc = "done"

\* ---------------------------------------------------------------- C8
\* the records whose put_item has succeeded so far
Saved(p) ==
  {i \in Reached(Api(p)) : i < inv[p].idx /\ i \notin env[p].writeFail}

\* the key of record i was in the table when record i was upserted
StoredBefore(p, i) ==
  \/ KeyAt(p, i) \in Keys(table0[Dep(p)])
  \/ \E j \in Saved(p) : j < i /\ KeyAt(p, j) = KeyAt(p, i)

\* C8: a get_item that fails does not abort the upsert: item_exists is
\* false, the put_item is made, and if it succeeds the record is in the
\* table and is counted as processed and created whether or not its key was
\* stored before; a record is counted as updated only after a read that
\* succeeded and found the key; the upsert fails exactly when put_item does.
C8_FailOpen ==
  \A p \in Invocations :
    IsHandler(p) =>
      /\ (inv[p].pc = "put" /\ inv[p].idx \in env[p].readFail)
           => ~inv[p].item_exists
      /\ Cardinality(PutOps(p)) =
           Cardinality({i \in Reached(Api(p)) : i < inv[p].idx})
      /\ \A i \in Saved(p) : KeyAt(p, i) \in Keys(table[Dep(p)])
      /\ inv[p].stats.created =
           Cardinality({i \in Saved(p) :
                          i \in env[p].readFail \/ ~StoredBefore(p, i)})
      /\ inv[p].stats.updated =
           Cardinality({i \in Saved(p) :
                          i \notin env[p].readFail /\ StoredBefore(p, i)})
      /\ inv[p].stats.errors =
           Cardinality({i \in DOMAIN inv[p].spacex_data :
                          /\ i < inv[p].idx
                          /\ i \in env[p].writeFail \/ i \notin Reached(Api(p))})

\* The read of a record whose key was stored failed, its write succeeded,
\* and the run reports it as created.
C8_Witness ==
  /\ IsHandler(1) /\ inv[1].pc = "done"
  /\ NumLaunches(1) = 1
  /\ env[1].readFail = {1} /\ env[1].writeFail = {}
  /\ StoredBefore(1, 1)
  /\ inv[1].response.summary.created = 1
  /\ inv[1].response.summary.errors = 0

\* --------------------------------------------------------------- C10
\* C10: an invocation stops only by returning, with statusCode 200 or 500;
\* it is 500 only if the fetched list was empty or an exception escaped the
\* loop; failures of put_item never escalate: a non-empty list of mappings
\* gives 200 with the failures in summary.errors, also when every write
\* fails (total_processed = 0, errors = N).
C10_Escalation ==
  \A p \in Invocations :
    IsHandler(p) =>
      /\ ~ENABLED Handler(p) => inv[p].pc = "done"
      /\ inv[p].pc = "done" =>
           LET r == inv[p].response
           IN  /\ r.statusCode \in {200, 500}
               /\ r.statusCode = 500 => (Api(p) = <<>> \/ inv[p].escaped)
               /\ (Api(p) # <<>> /\ \A i \in DOMAIN Api(p) :
                                      Api(p)[i].shape = "mapping")
                    => /\ r.statusCode = 200
                       /\ r.summary = inv[p].stats
                       /\ r.summary.errors >= Cardinality(env[p].writeFail)
               /\ (Api(p) # <<>> /\ env[p].writeFail = DOMAIN Api(p))
                    => /\ r.statusCode = 200
                       /\ r.summary.processed = 0
                       /\ r.summary.errors = NumLaunches(p)

\* Every one of three writes failed and the invocation returned 200.
C10_Witness ==
  /\ IsHandler(1) /\ inv[1].pc = "done"
  /\ NumLaunches(1) = 3
  /\ env[1].writeFail = {1, 2, 3}
  /\ inv[1].response.statusCode = 200
  /\ inv[1].response.summary.errors = 3

\* ---------------------------------------------------------------- C3
IsUpsertCaller(p) == env[p].entry = "upsert_launch_to_dynamodb"

\* the direct calls whose put_item succeeded
Wrote(p) == {i \in DOMAIN inv[p].results : i \notin env[p].writeFail}
CallKey(p, i) == inv[p].results[i].item.launch_id

\* the key of call i was in the table when call i began
StoredBeforeCall(p, i) ==
  \/ CallKey(p, i) \in Keys(table0[Dep(p)])
  \/ \E j \in Wrote(p) : j < i /\ CallKey(p, j) = CallKey(p, i)

\* C3: with no other writer and with get_item and put_item succeeding, an
\* upsert of a key that is not in the table reports 'created' and an upsert
\* of a record that was upserted before reports 'updated'; after any number
\* of upserts the table holds exactly one item under each upserted key, the
\* record upserted last, and the items under the other keys are those the
\* table began with.
C3_Idempotence ==
  \A p \in Invocations :
    IsUpsertCaller(p) =>
      /\ \A i \in DOMAIN inv[p].results :
           (i \notin env[p].readFail /\ i \notin env[p].writeFail) =>
             /\ ~StoredBeforeCall(p, i) => inv[p].results[i].outcome = "created"
             /\ (\E j \in Wrote(p) :
                   j < i /\ inv[p].results[j].item = inv[p].results[i].item)
                  => inv[p].results[i].outcome = "updated"
      /\ \A i \in Wrote(p) :
           /\ Cardinality({x \in table[Dep(p)] : x.launch_id = CallKey(p, i)}) = 1
           /\ (\A j \in Wrote(p) : CallKey(p, j) = CallKey(p, i) => j <= i)
                => inv[p].results[i].item \in table[Dep(p)]
      /\ LET written == {CallKey(p, i) : i \in Wrote(p)}
         IN  {x \in table[Dep(p)] : x.launch_id \notin written}
               = {x \in table0[Dep(p)] : x.launch_id \notin written}

\* One record upserted three times with no failure, on a table that held
\* other keys: created, then updated twice.
C3_Witness ==
  /\ IsUpsertCaller(1)
  /\ env[1].readFail = {} /\ env[1].writeFail = {}
  /\ table0[1] # {}
  /\ Len(inv[1].results) = 3
  /\ \A i \in 1..3 : CallKey(1, i) = <<"2">>
  /\ inv[1].results[1].outcome = "created"
  /\ inv[1].results[2].outcome = "updated"
  /\ inv[1].results[3].outcome = "updated"

\* ---------------------------------------------------------------- C4
\* the item of the last put_item that succeeded under key k in deployment d
LastPut(d, k) ==
  LET at == {i \in DOMAIN puts[d] : puts[d][i].launch_id = k}
      last == CHOOSE i \in at : \A j \in at : j <= i
  IN  puts[d][last]

\* C4: whatever the interleaving of the get_item and put_item calls of two
\* invocations, the table never holds two items under one launch_id, and the
\* item under a key is the one of the put_item that succeeded last, at every
\* moment and so once all invocations have finished.
C4_LastWriterWins ==
  \A d \in Deployments :
    /\ \A x, y \in table[d] : x.launch_id = y.launch_id => x = y
    /\ \A k \in {i.launch_id : i \in Range(puts[d])} : LastPut(d, k) \in table[d]

\* Both invocations upserted flight 1 on an empty table, both read the key as
\* absent and both report 'created'; the two records differ.
C4_Witness ==
  /\ \A p \in Invocations : IsHandler(p) /\ inv[p].pc = "done"
  /\ table0[1] = {}
  /\ \A p \in Invocations : NumLaunches(p) = 1 /\ inv[p].stats.created = 1
  /\ Len(puts[1]) = 2
  /\ puts[1][1] # puts[1][2]
  /\ table[1] = {puts[1][2]}

\* ---------------------------------------------------------------- C6
\* the rank the claim gives a stored record
ClaimRank(item) ==
  IF item.flight_number.kind \in {"int", "decimal"} THEN item.flight_number.val
  ELSE 0

\* C6: on a manual invocation whose scans succeed, latest_launches is the
\* min(5, table size) records with the highest flight numbers among all the
\* stored records, in descending order, a flight number that is absent or
\* not numeric ranking as 0.
C6_LatestAmongAll ==
  \A p \in Invocations :
    (/\ IsHandler(p) /\ inv[p].pc = "done"
     /\ inv[p].response.has_details
     /\ \A i \in DOMAIN inv[p].scans : inv[p].scans[i]) =>
      LET tbl == table[Dep(p)]
      IN  \E L \in SUBSET tbl :
            /\ Cardinality(L) = Min(5, Cardinality(tbl))
            /\ \A x \in tbl \ L, y \in L : ClaimRank(x) <= ClaimRank(y)
            /\ \E s \in Perms(L) :
                 /\ \A i \in 1..(Len(s) - 1) : ClaimRank(s[i]) >= ClaimRank(s[i + 1])
                 /\ inv[p].response.latest_launches
                      = [i \in 1..Len(s) |-> SummaryEntry(s[i])]

\* ---------------------------------------------------------------- C7
\* the law of the claim, for a status and the record it was derived from
StatusLaw(status, launch) ==
  /\ status \in Statuses
  /\ launch.upcoming = "true" => status = "upcoming"
  /\ launch.upcoming # "true" =>
       /\ status = "success" <=> launch.launch_success = "true"
       /\ status = "failed" <=> launch.launch_success = "false"
       /\ status = "unknown" <=> launch.launch_success \in {"absent", "null"}

\* C7: for every 'upcoming' (absent, false, true) and 'launch_success'
\* (absent, null, false, true), determine_launch_status is 'upcoming' when
\* upcoming is true, whatever launch_success; otherwise 'success' iff
\* launch_success is true, 'failed' iff it is false, 'unknown' iff it is
\* absent or null; and process_launch_data writes that value as status.
C7_StatusPriority ==
  \A p \in Invocations :
    env[p].entry = "process_launch_data" =>
      LET launch == Api(p)[1]
      IN  /\ StatusLaw(determine_launch_status(launch), launch)
          /\ (inv[p].pc = "done" /\ inv[p].results = <<>>) =>
               StatusLaw(inv[p].launch_data.status, launch)

\* A record that is upcoming and has launch_success true was normalised
\* with status 'upcoming'.
C7_Witness ==
  /\ env[1].entry = "process_launch_data"
  /\ inv[1].pc = "done"
  /\ Api(1)[1].upcoming = "true"
  /\ Api(1)[1].launch_success = "true"
  /\ inv[1].launch_data.status = "upcoming"

\* ---------------------------------------------------------------- C9
\* the trigger of the claim: httpMethod = POST, source = 'manual-test', or
\* a body key
ManualTrigger(event) ==
  event.httpMethod = "POST" \/ event.source = "manual-test" \/ event.body

BothDone == \A p \in Invocations : IsHandler(p) /\ inv[p].pc = "done"

\* The two runs made the same storage reads and writes, left the same table
\* and returned the same statusCode, message and counters.
SamePipeline ==
  /\ inv[1].ops = inv[2].ops
  /\ puts[1] = puts[2]
  /\ table[1] = table[2]
  /\ inv[1].stats = inv[2].stats
  /\ inv[1].response.statusCode = inv[2].response.statusCode
  /\ inv[1].response.message = inv[2].response.message
  /\ inv[1].response.summary = inv[2].response.summary

\* C9 as stated: two runs from the same table, fetch result and fault
\* pattern that differ in the trigger only agree on the storage calls, the
\* final table, the statusCode and the counters, and 'details' is present
\* iff the trigger has httpMethod = POST, source = 'manual-test' or a body.
C9_AsStated ==
  BothDone =>
    /\ SamePipeline
    /\ \A p \in Invocations :
         inv[p].response.has_details <=> ManualTrigger(env[p].event)

\* C9, amended: the same, with 'details' present iff the statusCode is 200
\* and the trigger has httpMethod = POST, source = 'manual-test' or a body;
\* a 200 response names execution_type 'manual' for such a trigger and
\* 'scheduled' otherwise, and a 500 response has neither field.
C9_ModeIndependence ==
  BothDone =>
    /\ SamePipeline
    /\ \A p \in Invocations :
         LET r == inv[p].response
         IN  /\ r.has_details <=>
                  (r.statusCode = 200 /\ ManualTrigger(env[p].event))
             /\ r.statusCode = 200 =>
                  r.execution_type = IF ManualTrigger(env[p].event)
                                     THEN "manual" ELSE "scheduled"
             /\ r.statusCode = 500 => r.execution_type = ""

\* A scheduled and a manual run of the same list, with a failed read and a
\* failed write, both returned 200 and only the manual one has 'details'.
C9_Witness ==
  /\ BothDone
  /\ env[2].event.source = "manual-test"
  /\ env[1].readFail # {} /\ env[1].writeFail # {}
  /\ inv[1].ops # <<>>
  /\ inv[1].response.statusCode = 200 /\ inv[2].response.statusCode = 200
  /\ ~inv[1].response.has_details /\ inv[2].response.has_details

====
